---- MODULE Spec2Model ----
(***************************************************************************)
(* FatigueSet data preparation (01_data_preparation.py).                   *)
(*                                                                         *)
(* The script turns the per-trial CSV files of a (band, intensity) folder  *)
(* into one 3D array: it scans the folder for the longest recording,       *)
(* reloads every file, zero-pads it to that length, stacks the padded      *)
(* tables and saves the block.  process_fatigueset does this for the 18    *)
(* folders of the catalog, in order.                                       *)
(*                                                                         *)
(* Two lines of the file are not at the indentation of the block they      *)
(* stand in: line 64 (inside find_max_length) and line 120 (inside         *)
(* process_fatigueset).  Python rejects such a line with IndentationError, *)
(* so find_max_length and process_fatigueset are modelled by the column of *)
(* that line: find_max_length_at, FindMaxLengthAt and LaunchAt take the    *)
(* column, and find_max_length, FindMaxLength and Launch use the columns   *)
(* the file has.  Spec and SpecFolder are the program as it is;            *)
(* SpecReindented and SpecFolderReindented are the program with the two    *)
(* lines moved to the column of their block.                               *)
(*                                                                         *)
(* A 2D array is a record [ncols, data]: data is the sequence of its rows, *)
(* each a sequence of ncols numbers, so its shape is (Len(data), ncols).   *)
(* A file of a folder is a record [ext, parse_ok, columns, data]: the      *)
(* header and the rows pandas.read_csv would produce, parse_ok = FALSE     *)
(* when read_csv raises.  The disk maps every path that exists to its      *)
(* entry [is_dir, files]: a directory with its files in the order          *)
(* os.listdir enumerates them, or something that is not a directory.  The  *)
(* output directory maps the saved names to their blocks.                  *)
(***************************************************************************)
EXTENDS Integers, Sequences, FiniteSets, TLC

VARIABLES
    fs,             \* the disk: input path -> entry
    out,            \* the output directory: output name -> saved block
    prev_out,       \* the output directory as the previous run left it
    run,            \* 1 in the first execution of the script, 2 in the second
    pc,             \* position of the running script
    error,          \* the exception that ended the run, "" while there is none
    data_sets,      \* local of process_fatigueset
    gi,             \* index of the current entry of data_sets (main loop)
    folder_path,    \* argument of create_3d_array
    max_length,     \* local of create_3d_array
    array_list,     \* local of create_3d_array
    array_3d,       \* value create_3d_array returned
    modified,       \* the folder was changed between the two passes
    array,          \* argument of a direct call of pad_array
    target_length,  \* argument of a direct call of pad_array
    padded          \* value the direct call of pad_array returned

vars == <<fs, out, prev_out, run, pc, error, data_sets, gi, folder_path, max_length,
          array_list, array_3d, modified, array, target_length, padded>>

----------------------------------------------------------------------------
(* Bounds of the model *)

MaxFiles == 2       \* files in a folder given to create_3d_array
MaxRows == 2        \* rows of a table on disk
MaxVal == 1         \* cell values of pad_array's argument are 0..MaxVal
MaxPresent == 2     \* catalog paths that exist on disk
ColCounts == {1, 2} \* channel counts of the tables

----------------------------------------------------------------------------
(* Indentation of the source *)

IndentLine63 == 4   \* "    max_length = 0", body of find_max_length
IndentLine64 == 3   \* "   triple quote", next statement of that body
IndentLine117 == 4  \* "    intensities = [...]", body of process_fatigueset
IndentLine120 == 3  \* "   for band in bands:", next statement of that body

\* A statement that follows a simple statement belongs to the same block
\* only at the same column; at any other column the function holding it
\* is rejected with IndentationError.
same_block(previous, column) == column = previous

----------------------------------------------------------------------------
(* Arrays *)

ZeroRow(n) == [c \in 1..n |-> 0]

shape(a) == <<Len(a.data), a.ncols>>

EmptyArray == [ncols |-> 0, data |-> <<>>]

\* np.pad(array, ((before, after), (0, 0)), mode='constant', constant_values=0)
np_pad(a, before, after) ==
    [a EXCEPT !.data = [i \in 1..before |-> ZeroRow(a.ncols)] \o @
                       \o [i \in 1..after |-> ZeroRow(a.ncols)]]

pad_array_top(a, target) ==
    LET current_length == Len(a.data)
    IN  IF current_length < target
        THEN np_pad(a, target - current_length, 0)
        ELSE a

pad_array_trunc(a, target) ==
    LET current_length == Len(a.data)
    IN  IF current_length < target
        THEN np_pad(a, 0, target - current_length)
        ELSE [a EXCEPT !.data = SubSeq(@, 1, target)]

pad_array(a, target) ==
    LET current_length == Len(a.data)
    IN  IF current_length < target
        THEN np_pad(a, 0, target - current_length)
        ELSE a

----------------------------------------------------------------------------
(* Files and the loader *)

IndexColumn == "Unnamed: 0"

ChannelNames == <<"Fp1", "Fp2", "F3", "F4", "C3", "C4">>

\* Row r of a recording with c channels, with the row counter in front when
\* the file was saved with its index.
DiskRow(r, c, idx) ==
    (IF idx THEN <<r - 1>> ELSE <<>>) \o [k \in 1..c |-> 10 * r + k]

CsvFile(r, c, idx) ==
    [ext |-> ".csv", parse_ok |-> TRUE,
     columns |-> (IF idx THEN <<IndexColumn>> ELSE <<>>) \o SubSeq(ChannelNames, 1, c),
     data |-> [i \in 1..r |-> DiskRow(i, c, idx)]]

BadFile == [ext |-> ".csv", parse_ok |-> FALSE, columns |-> <<>>, data |-> <<>>]

NotesFile(r) == [CsvFile(r, 1, FALSE) EXCEPT !.ext = ".txt"]

\* DataFrame.drop(columns=[name])
drop_column(columns, row, name) ==
    LET keep == {k \in 1..Len(columns) : columns[k] /= name}
        pos[k \in 0..Len(columns)] ==
            IF k = 0 THEN <<>>
            ELSE IF k \in keep THEN Append(pos[k - 1], k) ELSE pos[k - 1]
    IN  [j \in 1..Cardinality(keep) |-> row[pos[Len(columns)][j]]]

None2D == [ok |-> FALSE, arr |-> EmptyArray]

load_csv_to_numpy(f) ==
    IF ~f.parse_ok THEN None2D
    ELSE IF \E k \in 1..Len(f.columns) : f.columns[k] = IndexColumn
         THEN [ok |-> TRUE,
               arr |-> [ncols |-> Len(f.columns) - 1,
                        data |-> [i \in 1..Len(f.data) |->
                                     drop_column(f.columns, f.data[i], IndexColumn)]]]
         ELSE [ok |-> TRUE,
               arr |-> [ncols |-> Len(f.columns), data |-> f.data]]

----------------------------------------------------------------------------
(* The disk *)

Directory(files) == [is_dir |-> TRUE, files |-> files]

\* A path that exists and is no directory (a regular file).
RegularFile == [is_dir |-> FALSE, files |-> <<>>]

\* os.path.exists(path): true of every entry, directory or not.
os_path_exists(disk, path) == path \in DOMAIN disk

\* os.listdir(path): raises unless the path is a directory.
os_listdir(disk, path) ==
    IF path \in DOMAIN disk /\ disk[path].is_dir
    THEN [raised |-> FALSE, names |-> disk[path].files]
    ELSE [raised |-> TRUE, names |-> <<>>]

endswith_csv(f) == f.ext = ".csv"

\* [f for f in names if f.endswith('.csv')]
csv_files(names) == SelectSeq(names, endswith_csv)

Max(a, b) == IF a >= b THEN a ELSE b

RECURSIVE scan(_, _)
scan(files, acc) ==
    IF files = <<>> THEN acc
    ELSE LET array_2d == load_csv_to_numpy(Head(files))
         IN  scan(Tail(files),
                  IF array_2d.ok THEN Max(acc, Len(array_2d.arr.data)) ELSE acc)

\* find_max_length with line 64 at the given column: the function exists
\* only if the line is in its body's block; calling it then lists the
\* folder and folds the row counts.
find_max_length_at(column64, disk, path) ==
    IF ~same_block(IndentLine63, column64)
    THEN [raised |-> TRUE, error |-> "IndentationError", value |-> 0]
    ELSE IF os_listdir(disk, path).raised
    THEN [raised |-> TRUE, error |-> "OSError", value |-> 0]
    ELSE [raised |-> FALSE, error |-> "",
          value |-> scan(csv_files(os_listdir(disk, path).names), 0)]

find_max_length(disk, path) == find_max_length_at(IndentLine64, disk, path)

----------------------------------------------------------------------------
(* create_3d_array: second pass and stacking *)

RECURSIVE collect(_, _, _)
collect(files, target, acc) ==
    IF files = <<>> THEN acc
    ELSE LET array_2d == load_csv_to_numpy(Head(files))
         IN  collect(Tail(files), target,
                     IF array_2d.ok
                     THEN Append(acc, pad_array(array_2d.arr, target))
                     ELSE acc)

load_and_pad(disk, path, target) ==
    IF os_listdir(disk, path).raised
    THEN [raised |-> TRUE, value |-> <<>>]
    ELSE [raised |-> FALSE,
          value |-> collect(csv_files(os_listdir(disk, path).names), target, <<>>)]

None3D == [ok |-> FALSE, block |-> <<>>]

\* np.stack(arrays, axis=0): ValueError unless there is at least one array
\* and all arrays have the same shape.
np_stack(arrays) ==
    IF arrays = <<>> \/ \E i, j \in 1..Len(arrays) : shape(arrays[i]) /= shape(arrays[j])
    THEN [raised |-> TRUE, value |-> None3D]
    ELSE [raised |-> FALSE, value |-> [ok |-> TRUE, block |-> arrays]]

stack_or_none(arrays) ==
    IF arrays /= <<>> THEN np_stack(arrays)
    ELSE [raised |-> FALSE, value |-> None3D]

----------------------------------------------------------------------------
(* The catalog and the output directory *)

bands == <<"Raw EEG", "Alpha EEG", "Beta EEG", "Gamma EEG", "Delta EEG", "Theta EEG">>

intensities == <<"Low Intensity", "Medium Intensity", "High Intensity">>

\* s.lower().split(' ')[0]
lower_first_word(s) ==
    CASE s = "Raw EEG" -> "raw"
      [] s = "Alpha EEG" -> "alpha"
      [] s = "Beta EEG" -> "beta"
      [] s = "Gamma EEG" -> "gamma"
      [] s = "Delta EEG" -> "delta"
      [] s = "Theta EEG" -> "theta"
      [] s = "Low Intensity" -> "low"
      [] s = "Medium Intensity" -> "medium"
      [] s = "High Intensity" -> "high"

\* The list the loops of lines 120-134 build when they run: band-major, the
\* path BASE_PATH/"<band> samples"/<intensity> is the pair <<band, intensity>>,
\* the name array_3D_<b>_<i>.npy the pair <<b, i>>.
build_data_sets ==
    [k \in 1..(Len(bands) * Len(intensities)) |->
        LET band == bands[((k - 1) \div Len(intensities)) + 1]
            intensity == intensities[((k - 1) % Len(intensities)) + 1]
        IN  [input_path |-> <<band, intensity>>,
             output_name |-> <<lower_first_word(band), lower_first_word(intensity)>>]]

\* The folders the data layout has under BASE_PATH.
Paths == {<<bands[b], intensities[i]>> : b \in DOMAIN bands, i \in DOMAIN intensities}

\* np.save(output_path, array_3d): the file is created or overwritten.
np_save(o, name, a) ==
    [n \in DOMAIN o \cup {name} |-> IF n = name THEN a.block ELSE o[n]]

----------------------------------------------------------------------------
(* Input universes *)

Values == 0..MaxVal

RowsOf(n) == [1..n -> Values]

\* Arguments of pad_array: every table of up to MaxRows rows over Values.
Arrays ==
    UNION {{[ncols |-> c, data |-> d] : d \in [1..r -> RowsOf(c)]} :
           r \in 0..MaxRows, c \in ColCounts}

Targets == 0..(MaxRows + 1)

\* Files of a folder given to create_3d_array.
Files ==
    {CsvFile(r, c, idx) : r \in 0..MaxRows, c \in ColCounts, idx \in BOOLEAN}
        \cup {BadFile, NotesFile(MaxRows + 1)}

Dirs == {Directory(fl) : fl \in UNION {[1..n -> Files] : n \in 0..MaxFiles}}

\* What a path of the catalog can hold in a run of the whole script.
CatalogEntries ==
    {Directory(<<>>),
     Directory(<<BadFile, NotesFile(1)>>),
     Directory(<<CsvFile(2, 1, FALSE)>>),
     Directory(<<CsvFile(1, 2, TRUE), BadFile, CsvFile(2, 2, FALSE)>>),
     Directory(<<CsvFile(1, 1, FALSE), CsvFile(1, 2, FALSE)>>),
     RegularFile}

RECURSIVE PathSets(_)
PathSets(k) ==
    IF k = 0 THEN {{}}
    ELSE PathSets(k - 1) \cup {S \cup {p} : S \in PathSets(k - 1), p \in Paths}

Disks == UNION {[S -> CatalogEntries] : S \in PathSets(MaxPresent)}

FolderArgument == <<bands[1], intensities[1]>>

----------------------------------------------------------------------------
(* States *)

InitLocals ==
    /\ max_length = 0
    /\ array_list = <<>>
    /\ array_3d = None3D
    /\ modified = FALSE

InitPadArgs ==
    /\ array = EmptyArray
    /\ target_length = 0
    /\ padded = EmptyArray

InitOutput ==
    /\ error = ""
    /\ out = <<>>
    /\ prev_out = <<>>
    /\ run = 1

\* The script is started.
Init ==
    /\ fs \in Disks
    /\ pc = "launch"
    /\ data_sets = <<>>
    /\ gi = 0
    /\ folder_path = <<>>
    /\ InitOutput
    /\ InitLocals
    /\ InitPadArgs

\* create_3d_array is called on one folder.
InitFolder ==
    /\ folder_path = FolderArgument
    /\ \E d \in Dirs : fs = [p \in {folder_path} |-> d]
    /\ pc = "scan"
    /\ data_sets = <<>>
    /\ gi = 0
    /\ InitOutput
    /\ InitLocals
    /\ InitPadArgs

\* pad_array is called on one table.
InitPad ==
    /\ array \in Arrays
    /\ target_length \in Targets
    /\ padded = EmptyArray
    /\ pc = "pad_call"
    /\ data_sets = <<>>
    /\ gi = 0
    /\ folder_path = <<>>
    /\ fs = <<>>
    /\ InitOutput
    /\ InitLocals

----------------------------------------------------------------------------
(* pad_array, called directly *)

PadArray ==
    /\ pc = "pad_call"
    /\ padded' = pad_array(array, target_length)
    /\ pc' = "pad_ret"
    /\ UNCHANGED <<error, fs, out, prev_out, run, data_sets, gi, folder_path,
                   max_length, array_list, array_3d, modified, array,
                   target_length>>

----------------------------------------------------------------------------
(* create_3d_array *)

\* Step 1: max_length = find_max_length(folder_path), line 64 at the given
\* column.  Nothing catches what the call raises.
FindMaxLengthAt(column64) ==
    /\ pc = "scan"
    /\ LET r == find_max_length_at(column64, fs, folder_path)
       IN  IF r.raised
           THEN /\ pc' = "aborted"
                /\ error' = r.error
                /\ UNCHANGED max_length
           ELSE /\ pc' = "pad"
                /\ max_length' = r.value
                /\ UNCHANGED error
    /\ UNCHANGED <<fs, out, prev_out, run, data_sets, gi, folder_path,
                   array_list, array_3d, modified, array, target_length, padded>>

FindMaxLength == FindMaxLengthAt(IndentLine64)

\* Step 2: list the folder again, load and pad every file.
LoadAndPad ==
    /\ pc = "pad"
    /\ LET r == load_and_pad(fs, folder_path, max_length)
       IN  IF r.raised
           THEN /\ pc' = "aborted"
                /\ error' = "OSError"
                /\ UNCHANGED array_list
           ELSE /\ pc' = "stack"
                /\ array_list' = r.value
                /\ UNCHANGED error
    /\ UNCHANGED <<fs, out, prev_out, run, data_sets, gi, folder_path,
                   max_length, array_3d, modified, array, target_length, padded>>

\* Step 3: stack, or return None; an exception of np.stack is caught nowhere.
Stack ==
    /\ pc = "stack"
    /\ LET r == stack_or_none(array_list)
       IN  IF r.raised
           THEN /\ pc' = "aborted"
                /\ error' = "ValueError"
                /\ UNCHANGED array_3d
           ELSE /\ pc' = "ret"
                /\ array_3d' = r.value
                /\ UNCHANGED error
    /\ UNCHANGED <<fs, out, prev_out, run, data_sets, gi, folder_path,
                   max_length, array_list, modified, array, target_length, padded>>

----------------------------------------------------------------------------
(* The folder changes between the scan and the second pass *)

ReplaceFile(d, i, f) == [d EXCEPT !.files[i] = f]

GrownFile(f) ==
    LET idx == \E k \in 1..Len(f.columns) : f.columns[k] = IndexColumn
        c == IF idx THEN Len(f.columns) - 1 ELSE Len(f.columns)
    IN  [f EXCEPT !.data = Append(@, DiskRow(Len(f.data) + 1, c, idx))]

\* A recording gets one more row.
GrowFile ==
    /\ pc = "pad"
    /\ ~modified
    /\ \E i \in 1..Len(fs[folder_path].files) :
          /\ fs[folder_path].files[i].parse_ok
          /\ fs' = [fs EXCEPT ![folder_path] =
                       ReplaceFile(@, i, GrownFile(@.files[i]))]
    /\ modified' = TRUE
    /\ UNCHANGED <<error, out, prev_out, run, pc, data_sets, gi, folder_path,
                   max_length, array_list, array_3d, array, target_length, padded>>

\* A file is deleted.
RemoveFile ==
    /\ pc = "pad"
    /\ ~modified
    /\ \E i \in 1..Len(fs[folder_path].files) :
          fs' = [fs EXCEPT ![folder_path].files =
                    SubSeq(@, 1, i - 1) \o SubSeq(@, i + 1, Len(@))]
    /\ modified' = TRUE
    /\ UNCHANGED <<error, out, prev_out, run, pc, data_sets, gi, folder_path,
                   max_length, array_list, array_3d, array, target_length, padded>>

----------------------------------------------------------------------------
(* The script and process_fatigueset *)

\* python 01_data_preparation.py, lines 64 and 120 at the given columns: the
\* file is compiled before any of it runs, and a line outside its block
\* ends the run with IndentationError.  Otherwise process_fatigueset is
\* entered and builds data_sets.
LaunchAt(column64, column120) ==
    /\ pc = "launch"
    /\ IF same_block(IndentLine63, column64) /\ same_block(IndentLine117, column120)
       THEN /\ data_sets' = build_data_sets
            /\ gi' = 1
            /\ pc' = "loop"
            /\ UNCHANGED error
       ELSE /\ pc' = "aborted"
            /\ error' = "IndentationError"
            /\ UNCHANGED <<data_sets, gi>>
    /\ UNCHANGED <<fs, out, prev_out, run, folder_path, max_length, array_list,
                   array_3d, modified, array, target_length, padded>>

Launch == LaunchAt(IndentLine64, IndentLine120)

\* The path of the current entry does not exist: warning, continue.
SkipMissing ==
    /\ pc = "loop"
    /\ gi <= Len(data_sets)
    /\ ~os_path_exists(fs, data_sets[gi].input_path)
    /\ gi' = gi + 1
    /\ UNCHANGED <<error, fs, out, prev_out, run, pc, data_sets, folder_path,
                   max_length, array_list, array_3d, modified, array,
                   target_length, padded>>

\* array_3d = create_3d_array(input_folder)
CallCreate ==
    /\ pc = "loop"
    /\ gi <= Len(data_sets)
    /\ os_path_exists(fs, data_sets[gi].input_path)
    /\ folder_path' = data_sets[gi].input_path
    /\ pc' = "scan"
    /\ UNCHANGED <<error, fs, out, prev_out, run, data_sets, gi, max_length,
                   array_list, array_3d, modified, array, target_length, padded>>

\* create_3d_array returned: save the block if there is one, next entry.
SaveOrSkip ==
    /\ pc = "ret"
    /\ gi >= 1
    /\ out' = IF array_3d.ok
              THEN np_save(out, data_sets[gi].output_name, array_3d)
              ELSE out
    /\ gi' = gi + 1
    /\ pc' = "loop"
    /\ max_length' = 0
    /\ array_list' = <<>>
    /\ array_3d' = None3D
    /\ UNCHANGED <<error, fs, prev_out, run, data_sets, folder_path, modified,
                   array, target_length, padded>>

\* The loop is over: the summary is printed.
Finish ==
    /\ pc = "loop"
    /\ gi > Len(data_sets)
    /\ pc' = "done"
    /\ UNCHANGED <<error, fs, out, prev_out, run, data_sets, gi, folder_path,
                   max_length, array_list, array_3d, modified, array,
                   target_length, padded>>

\* The script is executed a second time on the same disk.
RunAgain ==
    /\ pc \in {"done", "aborted"}
    /\ run = 1
    /\ run' = 2
    /\ prev_out' = out
    /\ pc' = "launch"
    /\ error' = ""
    /\ data_sets' = <<>>
    /\ gi' = 0
    /\ max_length' = 0
    /\ array_list' = <<>>
    /\ array_3d' = None3D
    /\ UNCHANGED <<fs, out, folder_path, modified, array, target_length, padded>>

----------------------------------------------------------------------------
(* Specifications *)

\* The script as it is: no statement after the launch is reached.
Next ==
    \/ Launch
    \/ RunAgain

Spec == Init /\ [][Next]_vars

\* create_3d_array as it is: its first call does not return.
NextFolder == FindMaxLength

SpecFolder == InitFolder /\ [][NextFolder]_vars

NextPad == PadArray

SpecPad == InitPad /\ [][NextPad]_vars

\* The script with lines 64 and 120 at the column of their block.
NextReindented ==
    \/ LaunchAt(IndentLine63, IndentLine117)
    \/ SkipMissing
    \/ CallCreate
    \/ FindMaxLengthAt(IndentLine63)
    \/ LoadAndPad
    \/ Stack
    \/ SaveOrSkip
    \/ Finish
    \/ RunAgain

SpecReindented == Init /\ [][NextReindented]_vars

\* create_3d_array with line 64 at the column of its block, on a folder
\* that another process may write to.
NextFolderReindented ==
    \/ FindMaxLengthAt(IndentLine63)
    \/ GrowFile
    \/ RemoveFile
    \/ LoadAndPad
    \/ Stack

SpecFolderReindented == InitFolder /\ [][NextFolderReindented]_vars

----------------------------------------------------------------------------
(* Properties *)

IsValidCsv(f) == f.ext = ".csv" /\ f.parse_ok

\* The tables of a folder's .csv files that load, in enumeration order.
ValidTables(files) ==
    LET fl == SelectSeq(files, IsValidCsv)
    IN  [i \in 1..Len(fl) |-> load_csv_to_numpy(fl[i]).arr]

RowCounts(files) ==
    {Len(ValidTables(files)[i].data) : i \in 1..Len(ValidTables(files))}

\* The largest row count of a folder's valid files, 0 when there is none.
TrueMax(files) ==
    IF RowCounts(files) = {} THEN 0
    ELSE CHOOSE m \in RowCounts(files) : \A x \in RowCounts(files) : x <= m

IsZeroRow(row, n) == Len(row) = n /\ \A k \in 1..n : row[k] = 0

Rows(a) == Len(a.data)

IsDirectory(p) == p \in DOMAIN fs /\ fs[p].is_dir

OutputName(p) == <<lower_first_word(p[1]), lower_first_word(p[2])>>

\* The main loop has gone past the group of path p.
Passed(p) ==
    \E k \in 1..Len(data_sets) : data_sets[k].input_path = p /\ k < gi

\* The main loop is at the group of path p.
Current(p) ==
    gi \in 1..Len(data_sets) /\ data_sets[gi].input_path = p

\* C1: for a target length L >= rows(T), pad_array(T, L) has exactly L rows
\* and T's column count, its first rows(T) rows are T's rows and the
\* remaining L - rows(T) rows are all zero.
C1_PadExtends ==
    (pc = "pad_ret" /\ target_length >= Rows(array)) =>
        /\ Rows(padded) = target_length
        /\ padded.ncols = array.ncols
        /\ \A i \in 1..Rows(array) : padded.data[i] = array.data[i]
        /\ \A i \in (Rows(array) + 1)..target_length :
              IsZeroRow(padded.data[i], array.ncols)

C1_Witness ==
    /\ pc = "pad_ret"
    /\ Rows(array) >= 2
    /\ target_length > Rows(array)
    /\ array.data[1] /= array.data[2]
    /\ \E k \in 1..array.ncols : array.data[1][k] /= 0

\* C2: for a target length L <= rows(T), pad_array(T, L) is T itself: no row
\* is removed, added or altered.
C2_NoTruncation ==
    (pc = "pad_ret" /\ target_length <= Rows(array)) => padded = array

C2_Witness ==
    /\ pc = "pad_ret"
    /\ target_length < Rows(array)
    /\ target_length > 0

\* C3: find_max_length returns the maximum row count over the .csv files of
\* the directory that load, and 0 when none does: once create_3d_array is
\* past its call, the call has returned and max_length is that maximum.
C3_ScanReturnsMax ==
    (pc /= "scan" /\ ~modified /\ IsDirectory(folder_path)) =>
        /\ error /= "IndentationError"
        /\ max_length = TrueMax(fs[folder_path].files)

\* C4: when the folder is the same in both passes and its N >= 1 valid files
\* all have C columns, create_3d_array returns a block of shape (N, M, C), M
\* the largest row count; slice i holds the rows of the i-th valid file
\* followed by all-zero rows up to row M.
C4_BlockShapeAndContent ==
    LET v == ValidTables(fs[folder_path].files)
        M == TrueMax(fs[folder_path].files)
    IN  (/\ pc \in {"ret", "aborted"}
         /\ ~modified
         /\ v /= <<>>
         /\ \A i \in 1..Len(v) : v[i].ncols = v[1].ncols) =>
            /\ pc = "ret"
            /\ array_3d.ok
            /\ Len(array_3d.block) = Len(v)
            /\ \A i \in 1..Len(v) :
                  /\ Rows(array_3d.block[i]) = M
                  /\ array_3d.block[i].ncols = v[1].ncols
                  /\ \A r \in 1..M :
                        IF r <= Rows(v[i])
                        THEN array_3d.block[i].data[r] = v[i].data[r]
                        ELSE IsZeroRow(array_3d.block[i].data[r], v[1].ncols)

\* C5: no error is fatal to the run: whatever the folders hold, the script
\* never aborts and goes on to print its summary.
C5_RunNeverAborts == pc /= "aborted"

\* C6: a group whose source directory does not exist gets no output file,
\* create_3d_array is not entered for it, and the run does not end before
\* the loop has gone past it.
C6_MissingSkipped ==
    \A p \in Paths :
        ~IsDirectory(p) =>
            /\ OutputName(p) \notin DOMAIN out
            /\ Current(p) => pc = "loop"
            /\ pc = "aborted" => Passed(p)

\* C7: a group whose directory exists but holds no valid table gets no output
\* file, create_3d_array returns None for it (never an empty array), and the
\* run does not end before the loop has gone past it.
C7_EmptyGroupSkipped ==
    \A p \in Paths :
        (IsDirectory(p) /\ ValidTables(fs[p].files) = <<>>) =>
            /\ OutputName(p) \notin DOMAIN out
            /\ (Current(p) /\ pc = "ret") => ~array_3d.ok
            /\ pc = "aborted" => Passed(p)

\* ---------------------------------------------------------------------------
\* Properties of the re-indented program (SpecReindented,
\* SpecFolderReindented): lines 64 and 120 moved to the columns of lines 63
\* and 117.  The shipped file never reaches the states they speak of.
\* ---------------------------------------------------------------------------

\* A second run on the same folders that reaches its end leaves the output
\* directory as the first run left it.
Reindented_SecondRunSameOutput ==
    (run = 2 /\ pc = "done") => out = prev_out

Reindented_SecondRunWitness ==
    /\ run = 2
    /\ pc = "done"
    /\ \E n \in DOMAIN out :
          /\ Len(out[n]) = 2
          /\ out[n][1] /= out[n][2]

\* Whenever np.stack is reached, the tables given to it have one shape.
Reindented_SameShapeAtStack ==
    (pc = "stack" /\ array_list /= <<>>) =>
        \A i, j \in 1..Len(array_list) :
            /\ Rows(array_list[i]) = Rows(array_list[j])
            /\ array_list[i].ncols = array_list[j].ncols

\* A table that has grown past the scanned maximum between the passes goes
\* through pad_array unchanged.
Reindented_LongerTablePassesThrough ==
    LET v == ValidTables(fs[folder_path].files)
    IN  (modified /\ pc \in {"stack", "ret", "aborted"}
         /\ error /= "OSError") =>
            \A i \in 1..Len(v) :
                Rows(v[i]) > max_length => array_list[i] = v[i]

\* A table that has grown past the scanned maximum between the passes does
\* not end create_3d_array with an exception.
Reindented_LongerTableNoCrash ==
    LET v == ValidTables(fs[folder_path].files)
    IN  (modified /\ \E i \in 1..Len(v) : Rows(v[i]) > max_length) =>
            pc /= "aborted"

====
